---- MODULE Spec2Model ----
(***************************************************************************)
(* Verification model of the inventory-privacy circuits crate: the sparse  *)
(* Merkle accumulator (smt/tree.rs, smt/proof.rs), its in-circuit gadgets  *)
(* (smt/gadgets.rs), the range checks (range_check.rs), the commitment and *)
(* signal hashes (smt_commitment.rs, signal.rs), the state-transition      *)
(* relation (state_transition.rs) and the prover's verify entry point      *)
(* (prover/src/verify.rs).                                                 *)
(*                                                                         *)
(* Field elements.  The two-to-one hash is taken as injective: a hash      *)
(* output is the term <<a, b>> of its two inputs, and a field element that *)
(* is a plain number n is the term <<n>>.  Wires on which the circuit does *)
(* arithmetic hold numbers 0 .. FieldModulus-1 and are wrapped by F when   *)
(* they are hashed.                                                        *)
(*                                                                         *)
(* Widths.  TLC's integers are 32-bit, so the widths of the source are     *)
(* scaled: RangeBits stands for RANGE_BITS = 32, U64Bits for the 64 bits   *)
(* of a u64 and FieldModulus for the order of ark_bn254::Fr.  The scaling  *)
(* keeps what the range checks rely on: 2^RangeBits < 2^U64Bits and        *)
(* FieldModulus - 2^U64Bits >= 2^RangeBits, so the field difference of two *)
(* u64 values that is negative over the integers never fits the range.     *)
(***************************************************************************)
EXTENDS Integers, Naturals, Sequences, FiniteSets, TLC

VARIABLES tree, lastWrite, updates, proof, result, panic,
          circuit, cs, groth, verdict

treeVars == <<tree, lastWrite, updates, proof, result, panic>>
zkVars == <<circuit, cs, groth, verdict>>
vars == <<tree, lastWrite, updates, proof, result, panic,
          circuit, cs, groth, verdict>>

(* ------------------------------ bounds --------------------------------- *)

\* depth handed to SparseMerkleTree::new (DEFAULT_DEPTH is 12 in the source)
Depth == 2
\* largest quantity handed to update
MaxQty == 2
\* number of update calls in one run
MaxUpdates == 3

\* width of the range checks (RANGE_BITS is 32 in the source)
RangeBits == 2

NumLeaves == 2 ^ Depth
\* item ids handed to the tree: the leftmost leaf, its right sibling and the
\* rightmost leaf; NumLeaves is the first id out of capacity
Ids == {0, 1, NumLeaves - 1}
IdInputs == Ids \cup {NumLeaves}
Qtys == 0 .. MaxQty

(* --------------------------- hash (injective) -------------------------- *)

\* Fr::from(n): a number as a field element
F(n) == <<n>>

\* the two-to-one hash of two field elements
H(a, b) == <<a, b>>

\* tree.rs hash_leaf / proof.rs hash_leaf / gadgets.rs hash_leaf
hash_leaf(item_id, quantity) == H(F(item_id), F(quantity))

\* tree.rs hash_nodes / proof.rs hash_nodes / gadgets.rs hash_two
hash_nodes(left, right) == H(left, right)

(* ------------------------- SparseMerkleTree ---------------------------- *)

RECURSIVE compute_defaults(_)
\* defaults[level]: the hash of an empty subtree of that height
compute_defaults(level) ==
    IF level = 0 THEN hash_leaf(0, 0)
    ELSE LET prev == compute_defaults(level - 1) IN hash_nodes(prev, prev)

\* SparseMerkleTree::new
new == [leaves |-> <<>>, nodes |-> <<>>]

\* SparseMerkleTree::get
get(t, item_id) ==
    IF item_id \in DOMAIN t.leaves THEN t.leaves[item_id] ELSE 0

\* SparseMerkleTree::get_node on the node map
get_node(nodes, level, index) ==
    IF <<level, index>> \in DOMAIN nodes THEN nodes[<<level, index>>]
    ELSE compute_defaults(level)

Sibling_plus_one(index) == index + 1

\* current_index ^ 1
Sibling(index) == IF index % 2 = 0 THEN index + 1 ELSE index - 1

RECURSIVE recompute_loop(_, _, _, _)
\* the loop of recompute_path from `level` upwards; the node map it leaves
recompute_loop(nodes, level, current_index, current_hash) ==
    IF level = Depth THEN nodes
    ELSE LET sibling_hash == get_node(nodes, level, Sibling(current_index))
             parent_index == current_index \div 2
             parent_hash  == IF current_index % 2 = 0
                             THEN hash_nodes(current_hash, sibling_hash)
                             ELSE hash_nodes(sibling_hash, current_hash)
             inserted     == (<<level + 1, parent_index>> :> parent_hash) @@ nodes
         IN recompute_loop(inserted, level + 1, parent_index, parent_hash)

\* SparseMerkleTree::recompute_path
recompute_path(nodes, item_id) ==
    recompute_loop(nodes, 0, item_id, get_node(nodes, 0, item_id))

\* SparseMerkleTree::root
root(t) == get_node(t.nodes, Depth, 0)

update_resets_leaves(t, item_id, quantity) ==
    LET leaves1 == IF quantity = 0 THEN <<>> ELSE (item_id :> quantity)
        nodes1  == (<<0, item_id>> :> hash_leaf(item_id, quantity)) @@ t.nodes
    IN [leaves |-> leaves1, nodes |-> recompute_path(nodes1, item_id)]

\* SparseMerkleTree::update, for an item id within capacity
update(t, item_id, quantity) ==
    LET leaves1 == IF quantity = 0
                   THEN [k \in (DOMAIN t.leaves) \ {item_id} |-> t.leaves[k]]
                   ELSE (item_id :> quantity) @@ t.leaves
        nodes1  == (<<0, item_id>> :> hash_leaf(item_id, quantity)) @@ t.nodes
    IN [leaves |-> leaves1, nodes |-> recompute_path(nodes1, item_id)]

RECURSIVE IndexAt(_, _)
\* item_id >> level
IndexAt(item_id, level) ==
    IF level = 0 THEN item_id ELSE IndexAt(item_id, level - 1) \div 2

get_proof_own_node(t, item_id) ==
    [path    |-> [l \in 1 .. Depth |->
                    get_node(t.nodes, l - 1, IndexAt(item_id, l - 1))],
     indices |-> [l \in 1 .. Depth |-> IndexAt(item_id, l - 1) % 2 = 1]]

\* SparseMerkleTree::get_proof, for an item id within capacity
get_proof(t, item_id) ==
    [path    |-> [l \in 1 .. Depth |->
                    get_node(t.nodes, l - 1, Sibling(IndexAt(item_id, l - 1)))],
     indices |-> [l \in 1 .. Depth |-> IndexAt(item_id, l - 1) % 2 = 1]]

RECURSIVE compute_root_from_leaf(_, _, _)
\* MerkleProof::compute_root_from_leaf, from position k of the path
compute_root_from_leaf(p, leaf_hash, k) ==
    IF k > Len(p.path) THEN leaf_hash
    ELSE compute_root_from_leaf(
             p,
             IF p.indices[k] THEN hash_nodes(p.path[k], leaf_hash)
                             ELSE hash_nodes(leaf_hash, p.path[k]),
             k + 1)

compute_root_unkeyed_leaf(p, item_id, quantity) ==
    compute_root_from_leaf(p, hash_leaf(0, quantity), 1)

\* MerkleProof::compute_root
compute_root(p, item_id, quantity) ==
    compute_root_from_leaf(p, hash_leaf(item_id, quantity), 1)

\* SparseMerkleTree::verify_proof
verify_proof(t, item_id, quantity, p) ==
    compute_root(p, item_id, quantity) = root(t)

RECURSIVE from_items_loop(_, _, _)
from_items_loop(t, items, k) ==
    IF k > Len(items) THEN t
    ELSE from_items_loop(update(t, items[k][1], items[k][2]), items, k + 1)

\* SparseMerkleTree::from_items
from_items(items) == from_items_loop(new, items, 1)

(* --------------------------- in-circuit SMT ---------------------------- *)

\* gadgets.rs compute_root_from_path: the same walk over the witnessed proof
compute_root_from_path(leaf_hash, p) == compute_root_from_leaf(p, leaf_hash, 1)

\* gadgets.rs verify_membership: the constraint computed_root == expected_root
verify_membership(expected_root, item_id, quantity, p) ==
    compute_root_from_path(hash_leaf(item_id, quantity), p) = expected_root

verify_and_update_without_old_root(old_root, item_id, old_quantity, new_quantity, p) ==
    [satisfied |-> TRUE,
     new_root  |-> compute_root_from_path(hash_leaf(item_id, new_quantity), p)]

\* gadgets.rs verify_and_update: whether enforce_equal(old_root) is satisfied,
\* and the new root it returns
verify_and_update(old_root, item_id, old_quantity, new_quantity, p) ==
    LET is_insertion      == old_quantity = 0
        default_leaf_hash == hash_leaf(0, 0)
        regular_old_hash  == hash_leaf(item_id, old_quantity)
        old_leaf_hash     == IF is_insertion THEN default_leaf_hash
                                             ELSE regular_old_hash
    IN [satisfied |-> compute_root_from_path(old_leaf_hash, p) = old_root,
        new_root  |-> compute_root_from_path(hash_leaf(item_id, new_quantity), p)]

(* ------------------------- field and ranges ---------------------------- *)

\* width of a u64 and order of the scalar field, scaled with RangeBits
U64Bits == RangeBits + 1
FieldModulus == 2 ^ (U64Bits + 1) + 1
\* F::MODULUS_BIT_SIZE
ModulusBits == U64Bits + 2
Field == 0 .. (FieldModulus - 1)
U64 == 0 .. (2 ^ U64Bits - 1)

FAdd(a, b) == (a + b) % FieldModulus
FSub(a, b) == (a - b + FieldModulus) % FieldModulus
FMul(a, b) == (a * b) % FieldModulus

\* bit i of the canonical little-endian decomposition value.to_bits_le()
BitLE(value, i) == (value \div (2 ^ i)) % 2

enforce_range_inclusive(value, num_bits) ==
    \A i \in 0 .. (ModulusBits - 1) : i > num_bits => BitLE(value, i) = 0

enforce_range_modulus_bits(value, num_bits) ==
    \A i \in 0 .. (ModulusBits - 1) : i >= ModulusBits => BitLE(value, i) = 0

\* range_check.rs enforce_range: every bit at a position >= num_bits is FALSE
enforce_range(value, num_bits) ==
    \A i \in 0 .. (ModulusBits - 1) : i >= num_bits => BitLE(value, i) = 0

enforce_u32_range_u64_width(value) == enforce_range(value, U64Bits)

\* range_check.rs enforce_u32_range
enforce_u32_range(value) == enforce_range(value, RangeBits)

enforce_geq_strict(a, b) == enforce_u32_range(FSub(FSub(a, b), 1))

enforce_geq_swapped(a, b) == enforce_u32_range(FSub(b, a))

\* range_check.rs enforce_geq
enforce_geq(a, b) == enforce_u32_range(FSub(a, b))

(* ----------------------- commitment and signal ------------------------- *)

\* anemoi/native.rs anemoi_hash_two, injective and distinct from the sponge
anemoi_hash_two(a, b) == <<a, b, F(0), F(0)>>

RECURSIVE anemoi_absorb_skips_last(_, _, _)
anemoi_absorb_skips_last(acc, inputs, k) ==
    IF k >= Len(inputs) THEN acc
    ELSE anemoi_absorb_skips_last(anemoi_hash_two(acc, inputs[k]), inputs, k + 1)

RECURSIVE anemoi_absorb(_, _, _)
\* the loop of anemoi_hash_many over inputs[k ..]
anemoi_absorb(acc, inputs, k) ==
    IF k > Len(inputs) THEN acc
    ELSE anemoi_absorb(anemoi_hash_two(acc, inputs[k]), inputs, k + 1)

\* anemoi/native.rs anemoi_hash_many
anemoi_hash_many(inputs) ==
    IF Len(inputs) = 0 THEN anemoi_hash_two(F(0), F(0))
    ELSE IF Len(inputs) = 1 THEN anemoi_hash_two(inputs[1], F(0))
    ELSE anemoi_absorb(anemoi_hash_two(inputs[1], inputs[2]), inputs, 3)

\* smt_commitment.rs create_smt_commitment: the sponge over
\* [inventory_root, current_volume, blinding], injective
create_smt_commitment(inventory_root, current_volume, blinding) ==
    <<inventory_root, F(current_volume), blinding>>

\* smt_commitment.rs create_smt_commitment_var: the sponge gadget over the
\* three variables, current_volume being a field variable already
create_smt_commitment_var(inventory_root, current_volume, blinding) ==
    <<inventory_root, current_volume, blinding>>

\* anemoi/native.rs anemoi_hash
anemoi_hash(input) == anemoi_hash_two(input, F(0))

\* anemoi/gadgets.rs anemoi_hash_two_var: the permutation gadget on the state
\* (a, b) and the Jive output x + y, the value of anemoi_hash_two
anemoi_hash_two_var(a, b) == <<a, b, F(0), F(0)>>

\* anemoi/gadgets.rs anemoi_hash_var
anemoi_hash_var(input) == LET zero == F(0) IN anemoi_hash_two_var(input, zero)

RECURSIVE anemoi_absorb_var(_, _, _)
\* the loop of anemoi_hash_many_var over inputs[k ..]
anemoi_absorb_var(acc, inputs, k) ==
    IF k > Len(inputs) THEN acc
    ELSE anemoi_absorb_var(anemoi_hash_two_var(acc, inputs[k]), inputs, k + 1)

anemoi_hash_many_var_skip_one(inputs) ==
    IF Len(inputs) = 0 THEN LET zero == F(0) IN anemoi_hash_two_var(zero, zero)
    ELSE IF Len(inputs) = 1 THEN anemoi_hash_var(inputs[1])
    ELSE anemoi_absorb_var(anemoi_hash_two_var(inputs[1], inputs[2]), inputs, 2)

\* anemoi/gadgets.rs anemoi_hash_many_var
anemoi_hash_many_var(inputs) ==
    IF Len(inputs) = 0 THEN LET zero == F(0) IN anemoi_hash_two_var(zero, zero)
    ELSE IF Len(inputs) = 1 THEN anemoi_hash_var(inputs[1])
    ELSE anemoi_absorb_var(anemoi_hash_two_var(inputs[1], inputs[2]), inputs, 3)

\* signal.rs OpType as u64
Deposit == 0
Withdraw == 1

compute_signal_hash_without_nonce(old_commitment, new_commitment, registry_root, max_capacity, item_id, amount, op_type, nonce, inventory_id) ==
    anemoi_hash_many(<<old_commitment, new_commitment, registry_root,
                       F(max_capacity), F(item_id), F(amount), F(op_type),
                       inventory_id>>)

\* signal.rs compute_signal_hash / compute_signal_hash_var
compute_signal_hash(old_commitment, new_commitment, registry_root, max_capacity, item_id, amount, op_type, nonce, inventory_id) ==
    anemoi_hash_many(<<old_commitment, new_commitment, registry_root,
                       F(max_capacity), F(item_id), F(amount), F(op_type),
                       F(nonce), inventory_id>>)

(* --------------------- StateTransitionCircuit -------------------------- *)

\* the public inputs in the order of their FpVar::new_input calls
public_inputs(c) == <<c.signal_hash, F(c.nonce), c.inventory_id, c.registry_root>>

\* constraint 1: verify_and_update reproduces old_root and returns new_root
SmtConstraint(c) ==
    LET g == verify_and_update(c.old_root, c.item_id, c.old_quantity,
                               c.new_quantity, c.proof)
    IN g.satisfied /\ g.new_root = c.new_root

QuantityConstraint_always_adds(c) ==
    c.new_quantity = FAdd(c.old_quantity, c.amount)

\* constraint 2: new_qty == select(is_deposit, old + amount, old - amount)
QuantityConstraint(c) ==
    LET is_deposit == c.op_type = 0
        expected_new_qty == IF is_deposit THEN FAdd(c.old_quantity, c.amount)
                                          ELSE FSub(c.old_quantity, c.amount)
    IN c.new_quantity = expected_new_qty

\* constraint 3: range check on the new quantity
QuantityRangeConstraint(c) == enforce_u32_range(c.new_quantity)

VolumeConstraint_always_adds(c) ==
    c.new_volume = FAdd(c.old_volume, FMul(c.item_volume, c.amount))

\* constraint 4: new_volume == select(is_deposit, old + delta, old - delta)
VolumeConstraint(c) ==
    LET is_deposit   == c.op_type = 0
        volume_delta == FMul(c.item_volume, c.amount)
        expected_new_volume == IF is_deposit THEN FAdd(c.old_volume, volume_delta)
                                             ELSE FSub(c.old_volume, volume_delta)
    IN c.new_volume = expected_new_volume

\* constraint 5: range check on the new volume
VolumeRangeConstraint(c) == enforce_u32_range(c.new_volume)

\* constraint 6: enforce_geq(max_capacity, new_volume)
CapacityConstraint(c) == enforce_geq(c.max_capacity, c.new_volume)

\* constraints 7 and 8: the signal recomputed from the commitments and the
\* parameters equals the public signal_hash
SignalConstraint(c) ==
    LET old_commitment == create_smt_commitment(c.old_root, c.old_volume,
                                                c.old_blinding)
        new_commitment == create_smt_commitment(c.new_root, c.new_volume,
                                                c.new_blinding)
    IN compute_signal_hash(old_commitment, new_commitment, c.registry_root,
                           c.max_capacity, c.item_id, c.amount, c.op_type,
                           c.nonce, c.inventory_id) = c.signal_hash

OpTypeConstraint_deposit_or_any(c) == TRUE

\* constraint 9: is_deposit OR is_withdraw
OpTypeConstraint(c) == (c.op_type = 0) \/ (c.op_type = 1)

\* generate_constraints followed by cs.is_satisfied()
generate_constraints(c) ==
    [smt       |-> SmtConstraint(c),
     quantity  |-> QuantityConstraint(c),
     qty_range |-> QuantityRangeConstraint(c),
     volume    |-> VolumeConstraint(c),
     vol_range |-> VolumeRangeConstraint(c),
     capacity  |-> CapacityConstraint(c),
     signal    |-> SignalConstraint(c),
     op_valid  |-> OpTypeConstraint(c)]

is_satisfied(r) ==
    /\ r.smt /\ r.quantity /\ r.qty_range /\ r.volume /\ r.vol_range
    /\ r.capacity /\ r.signal /\ r.op_valid


(* ------------------- witness, proving and verification ----------------- *)

\* StateTransitionCircuit::empty(), the circuit handed to the setup
StateTransitionCircuit_empty ==
    [signal_hash |-> F(0), nonce |-> 0, inventory_id |-> F(0),
     old_root |-> F(0), old_volume |-> 0, old_blinding |-> F(0),
     new_root |-> F(0), new_volume |-> 0, new_blinding |-> F(0),
     item_id |-> 0, old_quantity |-> 0, new_quantity |-> 0, amount |-> 0,
     op_type |-> Deposit,
     proof |-> [path |-> [l \in 1 .. Depth |-> F(0)],
                indices |-> [l \in 1 .. Depth |-> FALSE]],
     item_volume |-> 0, registry_root |-> F(0), max_capacity |-> 0]

\* StateTransitionCircuit::new: the commitments and the signal hash are
\* computed from the arguments
StateTransitionCircuit_new(old_inventory_root, old_volume, old_blinding, new_inventory_root, new_volume, new_blinding, item_id, old_quantity, new_quantity, amount, op_type, inventory_proof, item_volume, registry_root, max_capacity, nonce, inventory_id) ==
    LET old_commitment == create_smt_commitment(old_inventory_root, old_volume,
                                                old_blinding)
        new_commitment == create_smt_commitment(new_inventory_root, new_volume,
                                                new_blinding)
        signal_hash == compute_signal_hash(old_commitment, new_commitment,
                           registry_root, max_capacity, item_id, amount,
                           op_type, nonce, inventory_id)
    IN [signal_hash |-> signal_hash, nonce |-> nonce,
        inventory_id |-> inventory_id,
        old_root |-> old_inventory_root, old_volume |-> old_volume,
        old_blinding |-> old_blinding,
        new_root |-> new_inventory_root, new_volume |-> new_volume,
        new_blinding |-> new_blinding,
        item_id |-> item_id, old_quantity |-> old_quantity,
        new_quantity |-> new_quantity, amount |-> amount, op_type |-> op_type,
        proof |-> inventory_proof,
        item_volume |-> item_volume, registry_root |-> registry_root,
        max_capacity |-> max_capacity]

\* the wires a prover may set to a value of its choice instead of the value
\* the inventory gives
Wires == {"none", "old_volume", "new_quantity", "amount", "op_type",
          "new_volume", "max_capacity"}

Forged(wire, value, w, derived) == IF wire = w THEN value ELSE derived

\* the per-unit volumes of the item types
ItemVolumes == {1, 2}

\* the witness assembled as in the tests of state_transition.rs: the old root
\* and the proof are read from the tree, the tree is updated to the new
\* quantity, the new root is read, and the circuit is built from the values;
\* one wire may carry a value of the prover's choice
Witness(t, item_id, op, amount, item_volume, wire, value) ==
    LET old_root     == root(t)
        inventory_proof == get_proof(t, item_id)
        old_quantity == get(t, item_id)
        old_volume   == Forged(wire, value, "old_volume",
                               FMul(old_quantity, item_volume))
        new_quantity == Forged(wire, value, "new_quantity",
                               IF op = Deposit THEN FAdd(old_quantity, amount)
                                               ELSE FSub(old_quantity, amount))
        volume_delta == FMul(item_volume, amount)
        new_volume   == Forged(wire, value, "new_volume",
                               IF op = Deposit THEN FAdd(old_volume, volume_delta)
                                               ELSE FSub(old_volume, volume_delta))
        max_capacity == Forged(wire, value, "max_capacity", 2 ^ RangeBits - 1)
        new_root     == IF new_quantity \in U64
                        THEN root(update(t, item_id, new_quantity))
                        ELSE compute_root(inventory_proof, item_id, new_quantity)
    IN StateTransitionCircuit_new(old_root, old_volume, F(5), new_root,
           new_volume, F(6), item_id, old_quantity, new_quantity,
           Forged(wire, value, "amount", amount),
           Forged(wire, value, "op_type", op),
           inventory_proof, item_volume, F(2), max_capacity, 1, F(1))

\* the number of instance variables of the relation (FpVar::new_input calls)
NumPublicInputs == Len(public_inputs(StateTransitionCircuit_empty))

\* the assignment pi was made for, with its instance replaced by inputs
with_instance(c, inputs) ==
    [c EXCEPT !.signal_hash = inputs[1], !.nonce = inputs[2][1],
              !.inventory_id = inputs[3], !.registry_root = inputs[4]]

\* Groth16::verify: an input vector of the wrong length is an error; a proof
\* is accepted for exactly the inputs that satisfy the relation together
\* with the witness the proof was made from
Groth16_verify(pi, inputs) ==
    IF Len(inputs) # NumPublicInputs THEN "error"
    ELSE IF pi.made /\ is_satisfied(generate_constraints(
                                        with_instance(pi.assignment, inputs)))
         THEN "accept" ELSE "reject"

\* prover/src/verify.rs verify_state_transition(vk, proof, signal_hash)
verify_state_transition(pi, signal_hash) ==
    LET inputs == <<signal_hash>>
    IN [by |-> "verify_state_transition", inputs |-> inputs,
        outcome |-> Groth16_verify(pi, inputs)]

NoCS == generate_constraints(StateTransitionCircuit_empty)
NoGroth == [made |-> FALSE, assignment |-> StateTransitionCircuit_empty]
NoVerdict == [by |-> "none", inputs |-> <<>>, outcome |-> "none"]
NoCircuit == StateTransitionCircuit_empty

(* ------------------------------ actions -------------------------------- *)

NoProof == [id |-> -1, at |-> -1, root |-> F(0), qty |-> 0, written |-> FALSE,
            path |-> <<>>, indices |-> <<>>]
NoResult == [op |-> "none"]

\* a run ends with its verification: nothing is called after it
Ended == panic \/ result.op \in {"verify_proof", "stale_verify_and_update"}

Init ==
    /\ tree = new
    /\ lastWrite = [i \in Ids |-> -1]
    /\ updates = 0
    /\ proof = NoProof
    /\ result = NoResult
    /\ panic = FALSE
    /\ circuit = NoCircuit
    /\ cs = NoCS
    /\ groth = NoGroth
    /\ verdict = NoVerdict

Update_capacity_inclusive(item_id, quantity) ==
    /\ ~Ended
    /\ updates < MaxUpdates
    /\ updates' = updates + 1
    /\ IF item_id <= NumLeaves
       THEN /\ tree' = update(tree, item_id, quantity)
            /\ lastWrite' = IF item_id \in Ids
                            THEN [lastWrite EXCEPT ![item_id] = quantity]
                            ELSE lastWrite
            /\ result' = [op |-> "update", id |-> item_id, q |-> quantity,
                          root |-> root(tree')]
            /\ UNCHANGED panic
       ELSE /\ panic' = TRUE
            /\ result' = [op |-> "update_panic", id |-> item_id]
            /\ UNCHANGED <<tree, lastWrite>>
    /\ UNCHANGED proof
    /\ UNCHANGED zkVars

\* tree.update(item_id, quantity); the assert on the capacity panics first
Update(item_id, quantity) ==
    /\ ~Ended
    /\ updates < MaxUpdates
    /\ updates' = updates + 1
    /\ IF item_id < NumLeaves
       THEN /\ tree' = update(tree, item_id, quantity)
            /\ lastWrite' = [lastWrite EXCEPT ![item_id] = quantity]
            /\ result' = [op |-> "update", id |-> item_id, q |-> quantity,
                          root |-> root(tree')]
            /\ UNCHANGED panic
       ELSE /\ panic' = TRUE
            /\ result' = [op |-> "update_panic", id |-> item_id]
            /\ UNCHANGED <<tree, lastWrite>>
    /\ UNCHANGED proof
    /\ UNCHANGED zkVars

\* let proof = tree.get_proof(item_id)
GetProof(item_id) ==
    /\ ~Ended
    /\ IF item_id < NumLeaves
       THEN /\ proof' = [id |-> item_id, at |-> updates, root |-> root(tree),
                         qty |-> get(tree, item_id),
                         written |-> lastWrite[item_id] # -1,
                         path |-> get_proof(tree, item_id).path,
                         indices |-> get_proof(tree, item_id).indices]
            /\ result' = [op |-> "get_proof", id |-> item_id]
            /\ UNCHANGED panic
       ELSE /\ panic' = TRUE
            /\ result' = [op |-> "get_proof_panic", id |-> item_id]
            /\ UNCHANGED proof
    /\ UNCHANGED <<tree, lastWrite, updates>>
    /\ UNCHANGED zkVars

\* tree.verify_proof(item_id, quantity, &proof) on the proof drawn last
VerifyProof(item_id, quantity) ==
    /\ ~Ended
    /\ proof # NoProof
    /\ result' = [op |-> "verify_proof", id |-> item_id, q |-> quantity,
                  ok |-> verify_proof(tree, item_id, quantity, proof)]
    /\ UNCHANGED <<tree, lastWrite, updates, proof, panic>>
    /\ UNCHANGED zkVars

\* the flow of smt/tests.rs test_circuit_*: old_root and proof are read, the
\* tree is updated natively, and verify_and_update is constrained to
\* reproduce old_root and to return the native new root
CircuitUpdate(item_id, new_quantity) ==
    /\ ~Ended
    /\ updates < MaxUpdates
    /\ LET old_root == root(tree)
           old_quantity == get(tree, item_id)
           p        == get_proof(tree, item_id)
           t2       == update(tree, item_id, new_quantity)
           g        == verify_and_update(old_root, item_id, old_quantity,
                                         new_quantity, p)
       IN /\ tree' = t2
          /\ result' = [op |-> "verify_and_update", id |-> item_id,
                        old_q |-> old_quantity,
                        was_written |-> lastWrite[item_id] # -1,
                        q |-> new_quantity,
                        satisfied |-> g.satisfied /\ g.new_root = root(t2)]
    /\ lastWrite' = [lastWrite EXCEPT ![item_id] = new_quantity]
    /\ updates' = updates + 1
    /\ UNCHANGED <<proof, panic>>
    /\ UNCHANGED zkVars

\* the proof drawn earlier is used after the tree was updated: old_root is
\* the current root, the old quantity is the current one or the one read
\* with the proof, and verify_and_update is constrained to reproduce old_root
StaleCircuitUpdate(new_quantity, stale_quantity) ==
    /\ ~Ended
    /\ proof # NoProof
    /\ proof.at < updates
    /\ LET item_id  == proof.id
           old_root == root(tree)
           old_quantity == IF stale_quantity THEN proof.qty
                                             ELSE get(tree, item_id)
           p        == [path |-> proof.path, indices |-> proof.indices]
           t2       == update(tree, item_id, new_quantity)
           g        == verify_and_update(old_root, item_id, old_quantity,
                                         new_quantity, p)
       IN /\ tree' = t2
          /\ lastWrite' = [lastWrite EXCEPT ![item_id] = new_quantity]
          /\ result' = [op |-> "stale_verify_and_update", id |-> item_id,
                        old_q |-> old_quantity, q |-> new_quantity,
                        cur_q |-> get(tree, item_id),
                        old_root |-> old_root,
                        fresh_path |-> get_proof(tree, item_id).path,
                        satisfied |-> g.satisfied,
                        computed_new_root |-> g.new_root,
                        new_root |-> root(t2)]
    /\ updates' = updates + 1
    /\ UNCHANGED <<proof, panic>>
    /\ UNCHANGED zkVars


Next ==
    \/ \E i \in IdInputs, q \in Qtys : Update(i, q)
    \/ \E i \in IdInputs : GetProof(i)
    \/ \E i \in Ids, q \in Qtys : VerifyProof(i, q)
    \/ \E i \in Ids, nq \in Qtys : CircuitUpdate(i, nq)

Spec == Init /\ [][Next]_vars

\* the tree on its own: updates and proofs, with ids up to the first one out
\* of capacity
NextCapacity ==
    \/ \E i \in IdInputs, q \in Qtys : Update(i, q)
    \/ \E i \in IdInputs : GetProof(i)

SpecCapacity == Init /\ [][NextCapacity]_vars

\* a proof is drawn, the tree is updated, and the proof is used afterwards
NextStale ==
    \/ \E i \in Ids, q \in Qtys : updates < MaxUpdates - 1 /\ Update(i, q)
    \/ \E i \in Ids : GetProof(i)
    \/ \E nq \in Qtys, sq \in BOOLEAN : StaleCircuitUpdate(nq, sq)

SpecStale == Init /\ [][NextStale]_vars

\* the inventory before the transition: at most one slot was written
Setup(item_id, quantity) ==
    /\ updates = 0
    /\ circuit = NoCircuit
    /\ Update(item_id, quantity)

\* the amounts handed to a transition: from 0 to the first u64 that is out of
\* the range of a quantity
Amounts == 0 .. 2 ^ RangeBits

\* the witness is assembled and the constraints are generated over it
Synthesize(item_id, op, amount, item_volume, wire, value) ==
    /\ circuit = NoCircuit
    /\ ~panic
    /\ wire = "none" => value = 0
    /\ circuit' = Witness(tree, item_id, op, amount, item_volume, wire, value)
    /\ cs' = generate_constraints(circuit')
    /\ IF circuit'.new_quantity \in U64
       THEN /\ tree' = update(tree, item_id, circuit'.new_quantity)
            /\ lastWrite' = [lastWrite EXCEPT ![item_id] = circuit'.new_quantity]
       ELSE UNCHANGED <<tree, lastWrite>>
    /\ result' = [op |-> "synthesize", id |-> item_id]
    /\ updates' = updates + 1
    /\ UNCHANGED <<proof, panic, groth, verdict>>

\* Groth16::prove over a satisfied constraint system
Prove ==
    /\ circuit # NoCircuit
    /\ ~groth.made
    /\ is_satisfied(cs)
    /\ groth' = [made |-> TRUE, assignment |-> circuit]
    /\ UNCHANGED <<treeVars, circuit, cs, verdict>>

\* the values a verifier may be handed in place of a public input
AltInputs == 0 .. 2

\* Groth16::verify(&vk, &public_inputs, &proof) with the public inputs of the
\* proof, of which the one at position k (if any) is replaced by F(alt)
Verify(k, alt) ==
    /\ groth.made
    /\ verdict = NoVerdict
    /\ k = 0 => alt = 0
    /\ LET own    == public_inputs(groth.assignment)
           inputs == [j \in 1 .. Len(own) |-> IF j = k THEN F(alt) ELSE own[j]]
       IN verdict' = [by |-> "verify", inputs |-> inputs,
                      outcome |-> Groth16_verify(groth, inputs)]
    /\ UNCHANGED <<treeVars, circuit, cs, groth>>

\* the prover library's verify_state_transition on the proof and its signal
VerifyStateTransition ==
    /\ groth.made
    /\ verdict = NoVerdict
    /\ verdict' = verify_state_transition(groth, groth.assignment.signal_hash)
    /\ UNCHANGED <<treeVars, circuit, cs, groth>>

NextTransition ==
    \/ \E i \in Ids, q \in Qtys : Setup(i, q)
    \/ /\ circuit = NoCircuit
       /\ \E i \in Ids, op \in {Deposit, Withdraw}, a \in Amounts,
             iv \in ItemVolumes, w \in Wires, v \in Field :
             Synthesize(i, op, a, iv, w, v)
    \/ Prove
    \/ \E k \in 0 .. NumPublicInputs, alt \in AltInputs : Verify(k, alt)
    \/ VerifyStateTransition

SpecTransition == Init /\ [][NextTransition]_vars


(* ------------------------- hashing on its own -------------------------- *)

\* every variable but result is as after construction
Idle ==
    /\ tree = new
    /\ lastWrite = [i \in Ids |-> -1]
    /\ updates = 0
    /\ proof = NoProof
    /\ panic = FALSE
    /\ circuit = NoCircuit
    /\ cs = NoCS
    /\ groth = NoGroth
    /\ verdict = NoVerdict

\* largest value of an input of the signal hash
MaxSignalInput == 1

\* the nine inputs of the signal hash, in the order of SignalInputs
SignalTuples == [1 .. 9 -> 0 .. MaxSignalInput]

\* the values the input at position k may take: OpType has two values
SignalInputValues(k) == IF k = 7 THEN {Deposit, Withdraw}
                                 ELSE 0 .. (MaxSignalInput + 1)

\* SignalInputs::compute_hash of the tuple: the commitments, the registry
\* root and the inventory id are field elements, the rest u64 or OpType
SignalOf(a) ==
    compute_signal_hash(F(a[1]), F(a[2]), F(a[3]), a[4], a[5], a[6], a[7],
                        a[8], F(a[9]))

InitSignal ==
    /\ Idle
    /\ \E a \in SignalTuples : result = [op |-> "signal_inputs", a |-> a]

\* the signal is computed for the inputs and for the inputs with the one at
\* position k replaced by v
ComputeSignals(k, v) ==
    /\ result.op = "signal_inputs"
    /\ v \in SignalInputValues(k)
    /\ LET a == result.a
           b == [a EXCEPT ![k] = v]
       IN result' = [op |-> "compute_signal_hash", a |-> a, b |-> b,
                     signal_a |-> SignalOf(a), signal_b |-> SignalOf(b)]
    /\ UNCHANGED <<tree, lastWrite, updates, proof, panic>>
    /\ UNCHANGED zkVars

NextSignal == \E k \in 1 .. 9, v \in 0 .. (MaxSignalInput + 1) : ComputeSignals(k, v)

SpecSignal == InitSignal /\ [][NextSignal]_vars

(* ---------------------- range checks on their own ---------------------- *)

InitRange ==
    /\ Idle
    /\ \E v \in Field : result = [op |-> "range_input", value |-> v]

\* enforce_range(cs, value, num_bits) on a fresh constraint system, then
\* cs.is_satisfied()
EnforceRange(num_bits) ==
    /\ result.op = "range_input"
    /\ result' = [op |-> "enforce_range", value |-> result.value,
                  num_bits |-> num_bits,
                  satisfied |-> enforce_range(result.value, num_bits)]
    /\ UNCHANGED <<tree, lastWrite, updates, proof, panic>>
    /\ UNCHANGED zkVars

NextRange == \E n \in 0 .. ModulusBits : EnforceRange(n)

SpecRange == InitRange /\ [][NextRange]_vars

(* ----------------------- enforce_geq on its own ------------------------ *)

InitGeq ==
    /\ Idle
    /\ \E a \in Field, b \in Field : result = [op |-> "geq_input", a |-> a, b |-> b]

\* enforce_geq(cs, a, b) on a fresh constraint system, then cs.is_satisfied();
\* the same pair as max_capacity and new_volume of constraint 6
EnforceGeq ==
    /\ result.op = "geq_input"
    /\ result' = [op |-> "enforce_geq", a |-> result.a, b |-> result.b,
                  satisfied |-> enforce_geq(result.a, result.b),
                  capacity |-> CapacityConstraint(
                                   [StateTransitionCircuit_empty
                                       EXCEPT !.max_capacity = result.a,
                                              !.new_volume = result.b])]
    /\ UNCHANGED <<tree, lastWrite, updates, proof, panic>>
    /\ UNCHANGED zkVars

NextGeq == EnforceGeq

SpecGeq == InitGeq /\ [][NextGeq]_vars

(* ------------------- chains of accepted transitions -------------------- *)

\* the accumulator whose root verify_and_update returns: the leaf of
\* (item_id, quantity) stands at the position the proof was drawn for, and the
\* nodes above it are recomputed along the path of the proof
place(t, position, item_id, quantity) ==
    LET leaves1 == IF quantity = 0
                   THEN [k \in (DOMAIN t.leaves) \ {item_id} |-> t.leaves[k]]
                   ELSE (item_id :> quantity) @@ t.leaves
        nodes1  == (<<0, position>> :> hash_leaf(item_id, quantity)) @@ t.nodes
    IN [leaves |-> leaves1, nodes |-> recompute_path(nodes1, position)]

\* one accepted transition on the accumulator: the prover hands in an item id,
\* an old and a new quantity and the Merkle proof of a position of its choice;
\* the transition counts when verify_and_update is satisfied against the
\* current root, and the root it returns is the root of the next state
TransitionAt(item_id, position, old_quantity, new_quantity) ==
    /\ updates < MaxUpdates
    /\ LET p == get_proof(tree, position)
           g == verify_and_update(root(tree), item_id, old_quantity, new_quantity, p)
       IN /\ g.satisfied
          /\ tree' = place(tree, position, item_id, new_quantity)
          /\ result' = [op |-> "transition", id |-> item_id,
                        position |-> position, old_q |-> old_quantity,
                        q |-> new_quantity, new_root |-> g.new_root]
    /\ lastWrite' = [lastWrite EXCEPT ![item_id] = new_quantity]
    /\ updates' = updates + 1
    /\ UNCHANGED <<proof, panic>>
    /\ UNCHANGED zkVars

NextPlacement ==
    \E i \in Ids, j \in Ids, oq \in Qtys, nq \in Qtys : TransitionAt(i, j, oq, nq)

SpecPlacement == Init /\ [][NextPlacement]_vars

\* the length of a chain of state transitions
MaxChain == 2

\* the aggregate volume committed to by the current state of the chain
ChainVolume == IF result.op = "chain" THEN result.volume ELSE 0

\* the values a prover may put on the amount and item_volume wires: honest
\* small ones and the field elements just below the modulus
ChainAmounts == {0, 1, 2, FieldModulus - 2, FieldModulus - 1}
ChainVolumes == ItemVolumes \cup {FieldModulus - 1}

\* the values a prover may put on the max_capacity wire: the ends of the range
\* of a volume, the first value out of it and the field element below the
\* modulus
ChainCapacities == {0, 1, 2 ^ RangeBits - 1, 2 ^ RangeBits, FieldModulus - 1}

\* the assignment of one link of a chain: the old state is the current one
\* (root of the tree, committed volume, blinding of the step), amount,
\* item_volume and max_capacity are field elements of the prover's choice,
\* and the new quantity and the new volume are the values constraints 2 and 4
\* force
ChainWitness(t, old_volume, step, item_id, op, amount, item_volume, max_capacity) ==
    LET inventory_proof == get_proof(t, item_id)
        old_quantity == get(t, item_id)
        new_quantity == IF op = Deposit THEN FAdd(old_quantity, amount)
                                        ELSE FSub(old_quantity, amount)
        volume_delta == FMul(item_volume, amount)
        new_volume   == IF op = Deposit THEN FAdd(old_volume, volume_delta)
                                        ELSE FSub(old_volume, volume_delta)
        new_root     == compute_root(inventory_proof, item_id, new_quantity)
    IN StateTransitionCircuit_new(root(t), old_volume, F(step), new_root,
           new_volume, F(step + 1), item_id, old_quantity, new_quantity,
           amount, op, inventory_proof, item_volume, F(2), max_capacity,
           step, F(1))

\* one link of the chain: the constraints are generated over the assignment
\* and, when they are satisfied, the new state becomes the current one
ApplyTransition(item_id, op, amount, item_volume, max_capacity) ==
    /\ updates < MaxChain
    /\ LET old_quantity == get(tree, item_id)
           new_quantity == IF op = Deposit THEN FAdd(old_quantity, amount)
                                           ELSE FSub(old_quantity, amount)
           volume_delta == FMul(item_volume, amount)
           new_volume   == IF op = Deposit THEN FAdd(ChainVolume, volume_delta)
                                           ELSE FSub(ChainVolume, volume_delta)
           c == ChainWitness(tree, ChainVolume, updates, item_id, op, amount,
                             item_volume, max_capacity)
       IN \* constraints 3, 5 and 6 are decided on the values alone, before
          \* any hash is computed
          /\ enforce_u32_range(new_quantity)
          /\ enforce_u32_range(new_volume)
          /\ enforce_geq(max_capacity, new_volume)
          /\ is_satisfied(generate_constraints(c))
          /\ tree' = update(tree, item_id, c.new_quantity)
          /\ lastWrite' = [lastWrite EXCEPT ![item_id] = c.new_quantity]
          /\ result' = [op |-> "chain", id |-> item_id, op_type |-> op,
                        quantity |-> c.new_quantity,
                        max_capacity |-> max_capacity,
                        volume |-> c.new_volume]
    /\ updates' = updates + 1
    /\ UNCHANGED <<proof, panic>>
    /\ UNCHANGED zkVars

NextChain ==
    \E i \in Ids, op \in {Deposit, Withdraw}, a \in ChainAmounts,
       iv \in ChainVolumes, mc \in ChainCapacities : ApplyTransition(i, op, a, iv, mc)

SpecChain == Init /\ [][NextChain]_vars

(* ------------------------ Anemoi permutation --------------------------- *)

\* order of the scalar field the permutation works in, scaled: a prime whose
\* predecessor is coprime to ALPHA, as that of BN254 is
AnemoiOrder == 17
AnemoiField == 0 .. (AnemoiOrder - 1)

AAdd(a, b) == (a + b) % AnemoiOrder
ASub(a, b) == (a - b + AnemoiOrder) % AnemoiOrder
AMul(a, b) == (a * b) % AnemoiOrder
\* Field::inverse
AInv(a) == CHOOSE b \in AnemoiField : AMul(a, b) = 1

RECURSIVE APow(_, _)
\* Field::pow
APow(x, e) == IF e = 0 THEN 1 ELSE AMul(x, APow(x, e - 1))

\* constants.rs NUM_ROUNDS (21 in the source)
NUM_ROUNDS == 2
\* constants.rs ALPHA
ALPHA == 5
\* constants.rs GENERATOR
GENERATOR == 7

\* constants.rs compute_inv_alpha: the inverse of ALPHA modulo the order - 1
compute_inv_alpha ==
    CHOOSE e \in 1 .. (AnemoiOrder - 1) : (ALPHA * e) % (AnemoiOrder - 1) = 1

\* constants.rs exp_inv_alpha
exp_inv_alpha(x) == APow(x, compute_inv_alpha)

\* constants.rs exp_alpha and gadgets.rs exp_alpha_var
exp_alpha(x) ==
    LET x2 == AMul(x, x)
        x4 == AMul(x2, x2)
    IN AMul(x4, x)

\* constants.rs beta and delta
beta == AInv(AAdd(1, GENERATOR))
delta == AMul(AMul(GENERATOR, GENERATOR), beta)

\* the constants BETA and DELTA that native.rs and gadgets.rs import
BETA == beta
DELTA == delta

\* constants.rs round_constants_c / round_constants_d: one fixed constant per
\* round, the first of C being 35
ARK_C == [round \in 0 .. (NUM_ROUNDS - 1) |-> (35 + 7 * round) % AnemoiOrder]
ARK_D == [round \in 0 .. (NUM_ROUNDS - 1) |-> (11 + 5 * round) % AnemoiOrder]

\* mul_by_generator, imported by native.rs: g * x for the generator g
mul_by_generator(x) == AMul(GENERATOR, x)

\* gadgets.rs mul_by_generator_var: x.double() + x
mul_by_generator_var(x) == AAdd(AAdd(x, x), x)

\* native.rs apply_sbox
apply_sbox(state) ==
    LET x1 == ASub(state.x, AMul(BETA, AMul(state.y, state.y)))
        x_inv_alpha == exp_inv_alpha(x1)
        y1 == ASub(state.y, x_inv_alpha)
        x2 == AAdd(x1, AAdd(AMul(BETA, AMul(y1, y1)), delta))
    IN [x |-> x2, y |-> y1]

\* native.rs apply_mds
apply_mds(state) ==
    LET g_plus_one == GENERATOR + 1
        new_x == AAdd(mul_by_generator(state.x), state.y)
        new_y == AAdd(state.x, AMul(g_plus_one, state.y))
    IN [x |-> new_x, y |-> new_y]

\* native.rs apply_round_constants
apply_round_constants(state, round) ==
    [x |-> AAdd(state.x, ARK_C[round]), y |-> AAdd(state.y, ARK_D[round])]

RECURSIVE permutation_rounds(_, _)
\* the loop of native.rs permutation from `round` on
permutation_rounds(state, round) ==
    IF round = NUM_ROUNDS THEN state
    ELSE permutation_rounds(apply_sbox(apply_mds(apply_round_constants(state, round))), round + 1)

\* native.rs permutation
permutation(state) == apply_mds(permutation_rounds(state, 0))

\* native.rs anemoi_hash_two over the field elements themselves
anemoi_hash_two_native(a, b) ==
    LET state == permutation([x |-> a, y |-> b])
    IN AAdd(state.x, state.y)

\* gadgets.rs exp_inv_alpha_var: the witness w and whether w^5 == x holds
exp_inv_alpha_var(x) ==
    LET w  == exp_inv_alpha(x)
        w5 == exp_alpha(w)
    IN [w |-> w, ok |-> w5 = x]

\* gadgets.rs apply_sbox_var; ok collects the constraints enforced so far
apply_sbox_var(state) ==
    LET x1 == ASub(state.x, AMul(BETA, AMul(state.y, state.y)))
        x_inv_alpha == exp_inv_alpha_var(x1)
        y1 == ASub(state.y, x_inv_alpha.w)
        x2 == AAdd(AAdd(x1, AMul(BETA, AMul(y1, y1))), DELTA)
    IN [x |-> x2, y |-> y1, ok |-> state.ok /\ x_inv_alpha.ok]

\* gadgets.rs apply_mds_var
apply_mds_var(state) ==
    LET g_plus_one == GENERATOR + 1
        new_x == AAdd(mul_by_generator_var(state.x), state.y)
        new_y == AAdd(state.x, AMul(g_plus_one, state.y))
    IN [x |-> new_x, y |-> new_y, ok |-> state.ok]

\* gadgets.rs apply_round_constants_var
apply_round_constants_var(state, round) ==
    [x |-> AAdd(state.x, ARK_C[round]), y |-> AAdd(state.y, ARK_D[round]), ok |-> state.ok]

RECURSIVE permutation_var_rounds(_, _)
\* the loop of gadgets.rs permutation_var from `round` on
permutation_var_rounds(state, round) ==
    IF round = NUM_ROUNDS THEN state
    ELSE permutation_var_rounds(apply_sbox_var(apply_mds_var(apply_round_constants_var(state, round))), round + 1)

\* gadgets.rs permutation_var
permutation_var(state) == apply_mds_var(permutation_var_rounds(state, 0))

\* gadgets.rs anemoi_hash_two_var over the field elements themselves: the
\* output and whether the constraint system is satisfied
anemoi_hash_two_gadget(a, b) ==
    LET state == permutation_var([x |-> a, y |-> b, ok |-> TRUE])
    IN [out |-> AAdd(state.x, state.y), satisfied |-> state.ok]

InitAnemoi ==
    /\ Idle
    /\ \E a \in AnemoiField, b \in AnemoiField :
           result = [op |-> "anemoi_inputs", a |-> a, b |-> b]

\* anemoi/tests.rs test_anemoi_circuit_consistency on one pair
HashTwo ==
    /\ result.op = "anemoi_inputs"
    /\ result' = [op |-> "anemoi_hash_two", a |-> result.a, b |-> result.b,
                  native |-> anemoi_hash_two_native(result.a, result.b),
                  gadget |-> anemoi_hash_two_gadget(result.a, result.b)]
    /\ UNCHANGED <<tree, lastWrite, updates, proof, panic>>
    /\ UNCHANGED zkVars

NextAnemoi == HashTwo

SpecAnemoi == InitAnemoi /\ [][NextAnemoi]_vars

(* ---------------------- native InventoryState -------------------------- *)

\* debug builds check u64 arithmetic and panic on overflow, release builds wrap
Builds == {"debug", "release"}

\* a * b on u64
MulU64(a, b, build) ==
    IF a * b < 2 ^ U64Bits THEN [panics |-> FALSE, value |-> a * b]
    ELSE IF build = "debug" THEN [panics |-> TRUE, value |-> 0]
    ELSE [panics |-> FALSE, value |-> (a * b) % (2 ^ U64Bits)]

\* a + b on u64
AddU64(a, b, build) ==
    IF a + b < 2 ^ U64Bits THEN [panics |-> FALSE, value |-> a + b]
    ELSE IF build = "debug" THEN [panics |-> TRUE, value |-> 0]
    ELSE [panics |-> FALSE, value |-> (a + b) % (2 ^ U64Bits)]

\* smt_commitment.rs InventoryState::new
InventoryState_new(inventory_root, current_volume, blinding) ==
    [inventory_root |-> inventory_root, current_volume |-> current_volume,
     blinding |-> blinding]

\* InventoryState::after_deposit: the state returned, or a panic; the
\* function has no error value to return
after_deposit(self, new_root, item_volume, amount, new_blinding, build) ==
    LET product == MulU64(item_volume, amount, build)
        sum     == AddU64(self.current_volume, product.value, build)
    IN IF product.panics \/ sum.panics
       THEN [outcome |-> "panic", state |-> self]
       ELSE [outcome |-> "ok",
             state |-> InventoryState_new(new_root, sum.value, new_blinding)]

\* InventoryState::after_withdraw: the assert panics on an underflow
after_withdraw(self, new_root, item_volume, amount, new_blinding, build) ==
    LET volume_delta == MulU64(item_volume, amount, build)
    IN IF volume_delta.panics
       THEN [outcome |-> "panic", state |-> self]
       ELSE IF ~(self.current_volume >= volume_delta.value)
       THEN [outcome |-> "panic", state |-> self]
       ELSE [outcome |-> "ok",
             state |-> InventoryState_new(new_root,
                           self.current_volume - volume_delta.value,
                           new_blinding)]

InitInventoryState ==
    /\ Idle
    /\ \E v \in U64 : result = [op |-> "inventory_state",
                                state |-> InventoryState_new(F(1), v, F(5))]

AfterDeposit(item_volume, amount, build) ==
    /\ result.op = "inventory_state"
    /\ result' = [op |-> "after_deposit", old |-> result.state,
                  item_volume |-> item_volume, amount |-> amount,
                  build |-> build,
                  returned |-> after_deposit(result.state, F(2), item_volume, amount, F(6), build)]
    /\ UNCHANGED <<tree, lastWrite, updates, proof, panic>>
    /\ UNCHANGED zkVars

AfterWithdraw(item_volume, amount, build) ==
    /\ result.op = "inventory_state"
    /\ result' = [op |-> "after_withdraw", old |-> result.state,
                  item_volume |-> item_volume, amount |-> amount,
                  build |-> build,
                  returned |-> after_withdraw(result.state, F(2), item_volume, amount, F(6), build)]
    /\ UNCHANGED <<tree, lastWrite, updates, proof, panic>>
    /\ UNCHANGED zkVars

NextInventoryState ==
    \/ \E iv \in U64, a \in U64, b \in Builds : AfterDeposit(iv, a, b)
    \/ \E iv \in U64, a \in U64, b \in Builds : AfterWithdraw(iv, a, b)

SpecInventoryState == InitInventoryState /\ [][NextInventoryState]_vars

(* ------------------- hash folds and commitments ------------------------ *)

\* longest input of anemoi_hash_many and largest value of an input
MaxHashLen == 4
MaxHashValue == 2

\* the inputs handed to the hash functions, as u64 values
HashInputs == UNION {[1 .. n -> 0 .. MaxHashValue] : n \in 0 .. MaxHashLen}

\* Fr::from on every input
AsField(xs) == [k \in 1 .. Len(xs) |-> F(xs[k])]

InitHash ==
    /\ Idle
    /\ \E xs \in HashInputs : result = [op |-> "hash_inputs", xs |-> xs]

\* anemoi_hash_many on the inputs and anemoi_hash_many_var on the same inputs
\* as witness variables (anemoi/gadgets.rs test_circuit_matches_native)
HashMany ==
    /\ result.op = "hash_inputs"
    /\ LET inputs == AsField(result.xs)
       IN result' = [op |-> "anemoi_hash_many", inputs |-> inputs,
                     native |-> anemoi_hash_many(inputs),
                     gadget |-> anemoi_hash_many_var(inputs)]
    /\ UNCHANGED <<tree, lastWrite, updates, proof, panic>>
    /\ UNCHANGED zkVars

\* create_smt_commitment and create_smt_commitment_var on the triple
\* (root, volume, blinding), and create_smt_commitment on the triple with the
\* value at position k replaced by v
Commit(k, v) ==
    /\ result.op = "hash_inputs"
    /\ Len(result.xs) = 3
    /\ LET a == result.xs
           b == [a EXCEPT ![k] = v]
       IN result' = [op |-> "create_smt_commitment", a |-> a, b |-> b,
                     native |-> create_smt_commitment(F(a[1]), a[2], F(a[3])),
                     gadget |-> create_smt_commitment_var(F(a[1]), F(a[2]), F(a[3])),
                     other  |-> create_smt_commitment(F(b[1]), b[2], F(b[3]))]
    /\ UNCHANGED <<tree, lastWrite, updates, proof, panic>>
    /\ UNCHANGED zkVars

NextHash ==
    \/ HashMany
    \/ \E k \in 1 .. 3, v \in 0 .. MaxHashValue : Commit(k, v)

SpecHash == InitHash /\ [][NextHash]_vars

(* ------------------ capacity and item-exists proofs -------------------- *)

\* capacity_smt.rs compute_capacity_hash: the sponge over
\* [commitment, max_capacity]
compute_capacity_hash(commitment, max_capacity) == H(commitment, F(max_capacity))

\* CapacitySMTCircuit::new: the public hash is derived from the witness
CapacitySMTCircuit_new(inventory_root, current_volume, blinding, max_capacity) ==
    LET commitment == create_smt_commitment(inventory_root, current_volume, blinding)
    IN [public_hash    |-> compute_capacity_hash(commitment, max_capacity),
        inventory_root |-> inventory_root,
        current_volume |-> current_volume,
        blinding       |-> blinding,
        max_capacity   |-> max_capacity]

\* CapacitySMTCircuit::generate_constraints, then cs.is_satisfied():
\* constraint 1 computes the commitment, constraint 2 equates the computed
\* hash with the public input; nothing is enforced under "Constraint 3"
CapacitySMTCircuit_generate_constraints(c) ==
    LET commitment_var == create_smt_commitment(c.inventory_root, c.current_volume, c.blinding)
        computed_hash  == H(commitment_var, F(c.max_capacity))
    IN computed_hash = c.public_hash

\* item_exists_smt.rs compute_item_exists_hash: the sponge over
\* [commitment, item_id, min_quantity]
compute_item_exists_hash(commitment, item_id, min_quantity) ==
    <<commitment, F(item_id), F(min_quantity)>>

\* ItemExistsSMTCircuit::new
ItemExistsSMTCircuit_new(inventory_root, current_volume, blinding, item_id, actual_quantity, min_quantity, p) ==
    LET commitment == create_smt_commitment(inventory_root, current_volume, blinding)
    IN [public_hash     |-> compute_item_exists_hash(commitment, item_id, min_quantity),
        inventory_root  |-> inventory_root,
        current_volume  |-> current_volume,
        blinding        |-> blinding,
        item_id         |-> item_id,
        actual_quantity |-> actual_quantity,
        min_quantity    |-> min_quantity,
        proof           |-> p]

\* ItemExistsSMTCircuit::generate_constraints, then cs.is_satisfied():
\* constraint 1 is the membership, constraint 2 computes diff and enforces
\* nothing on it, constraints 3 and 4 equate the hash of the commitment, the
\* item id and the minimum with the public input
ItemExistsSMTCircuit_generate_constraints(c) ==
    LET membership     == verify_membership(c.inventory_root, c.item_id, c.actual_quantity, c.proof)
        diff           == FSub(c.actual_quantity, c.min_quantity)
        commitment_var == create_smt_commitment(c.inventory_root, c.current_volume, c.blinding)
        computed_hash  == <<commitment_var, F(c.item_id), F(c.min_quantity)>>
    IN membership /\ computed_hash = c.public_hash

\* the proofs read the tree and change nothing: a run ends with its proof
QueryDone == result.op \in {"capacity", "item_exists"}

\* a capacity proof is attempted for the inventory: the circuit is built by
\* new over the root of the tree, and its root is replaced afterwards when
\* tampered (capacity_smt.rs test_capacity_wrong_commitment)
ProveCapacity(current_volume, max_capacity, tampered) ==
    /\ ~panic
    /\ ~QueryDone
    /\ LET c  == CapacitySMTCircuit_new(root(tree), current_volume, F(5), max_capacity)
           c2 == IF tampered THEN [c EXCEPT !.inventory_root = F(9)] ELSE c
       IN result' = [op |-> "capacity", current_volume |-> current_volume,
                     max_capacity |-> max_capacity, tampered |-> tampered,
                     satisfied |-> CapacitySMTCircuit_generate_constraints(c2)]
    /\ UNCHANGED <<tree, lastWrite, updates, proof, panic>>
    /\ UNCHANGED zkVars

\* an item-exists proof is attempted for item_id with the Merkle proof drawn
\* for proof_id and the claimed quantity
ProveItemExists(item_id, actual_quantity, min_quantity, proof_id) ==
    /\ ~panic
    /\ ~QueryDone
    /\ LET c == ItemExistsSMTCircuit_new(root(tree), 1, F(5), item_id, actual_quantity, min_quantity, get_proof(tree, proof_id))
       IN result' = [op |-> "item_exists", id |-> item_id,
                     proof_id |-> proof_id,
                     actual_quantity |-> actual_quantity,
                     min_quantity |-> min_quantity,
                     stored |-> get(tree, item_id),
                     satisfied |-> ItemExistsSMTCircuit_generate_constraints(c)]
    /\ UNCHANGED <<tree, lastWrite, updates, proof, panic>>
    /\ UNCHANGED zkVars

NextQuery ==
    \/ ~QueryDone /\ \E i \in Ids, q \in Qtys : Update(i, q)
    \/ ~QueryDone /\ \E v \in U64, m \in U64, t \in BOOLEAN : ProveCapacity(v, m, t)
    \/ ~QueryDone /\ \E i \in Ids, a \in Qtys, m \in Qtys, j \in Ids : ProveItemExists(i, a, m, j)

SpecQuery == Init /\ [][NextQuery]_vars

(* ------------------------------ claims --------------------------------- *)

\* the item lists of at most two entries handed to from_items
ItemLists == UNION {[1 .. n -> Ids \X Qtys] : n \in 0 .. 2}

\* C1: in every state reached by update calls, for every item id and every new
\* quantity, verify_and_update(root, id, get(id), newQty, proof(id)) is
\* satisfied and returns the root that the native update(id, newQty)
\* produces, for never-written slots and for slots set back to quantity 0.
C1_GadgetMatchesNativeUpdate ==
    /\ \A i \in Ids, nq \in Qtys :
          LET g == verify_and_update(root(tree), i, get(tree, i), nq,
                                     get_proof(tree, i))
          IN g.satisfied /\ g.new_root = root(update(tree, i, nq))
    /\ result.op = "verify_and_update" => result.satisfied

\* C2: a tree reached by any sequence of update calls and a tree built by
\* from_items from any item list that ends with the same id -> quantity
\* mapping have the same root.
C2_RootDependsOnlyOnMapping ==
    \A items \in ItemLists :
        LET t2 == from_items(items)
        IN (\A i \in Ids : get(t2, i) = get(tree, i)) => root(t2) = root(tree)

\* C3: once the last write to item id set it to quantity q, the proof drawn
\* for id from the current tree verifies with q and with no other quantity.
C3_ProofRoundTrip ==
    /\ \A i \in Ids :
          lastWrite[i] # -1 =>
            LET p == get_proof(tree, i)
            IN /\ verify_proof(tree, i, lastWrite[i], p)
               /\ \A q \in Qtys \ {lastWrite[i]} : ~verify_proof(tree, i, q, p)
    /\ ( /\ result.op = "verify_proof"
         /\ proof.id = result.id
         /\ proof.at = updates
         /\ lastWrite[result.id] # -1 )
       => (result.ok <=> result.q = lastWrite[result.id])

\* C3 witness: after an overwrite of the item, its fresh proof was verified
\* with the quantity written last and accepted
C3_Witness ==
    /\ result.op = "verify_proof"
    /\ result.ok
    /\ proof.id = result.id
    /\ proof.at = updates
    /\ updates >= 2
    /\ lastWrite[result.id] = result.q

\* a witness was assembled and its constraints were generated
Synthesized == circuit # NoCircuit

\* every constraint other than the two on the quantity holds
RestOfQuantityHolds ==
    /\ cs.smt /\ cs.volume /\ cs.vol_range /\ cs.capacity /\ cs.signal
    /\ cs.op_valid

\* C4: a Withdraw witness whose new quantity is old - amount in the field is
\* unsatisfied, by the range check on the new quantity, whenever the u64
\* amount exceeds the u64 old quantity; when amount = old quantity the new
\* quantity is 0, both quantity constraints hold, and the witness is
\* satisfied once the remaining constraints hold.
C4_WithdrawUnderflowUnsatisfiable ==
    ( /\ Synthesized
      /\ circuit.op_type = Withdraw
      /\ circuit.old_quantity \in U64
      /\ circuit.amount \in U64
      /\ circuit.new_quantity = FSub(circuit.old_quantity, circuit.amount) )
    => /\ circuit.amount > circuit.old_quantity
             => ~cs.qty_range /\ ~is_satisfied(cs)
       /\ circuit.amount = circuit.old_quantity
             => /\ circuit.new_quantity = 0
                /\ cs.quantity /\ cs.qty_range
                /\ RestOfQuantityHolds => is_satisfied(cs)

\* C4 witness: a withdrawal of more than the slot holds, whose every
\* constraint but the range check on the wrapped new quantity holds
C4_Witness ==
    /\ Synthesized
    /\ circuit.op_type = Withdraw
    /\ circuit.amount \in U64
    /\ circuit.amount > circuit.old_quantity
    /\ circuit.new_quantity = FSub(circuit.old_quantity, circuit.amount)
    /\ ~cs.qty_range
    /\ cs.quantity
    /\ RestOfQuantityHolds

\* every constraint other than the capacity check holds
RestOfCapacityHolds ==
    /\ cs.smt /\ cs.quantity /\ cs.qty_range /\ cs.volume /\ cs.vol_range
    /\ cs.signal /\ cs.op_valid

\* C5: a witness whose new volume equals max_capacity passes the capacity
\* check and is satisfied when the other constraints hold; a witness whose new
\* volume is max_capacity + 1 is unsatisfied.
C5_CapacityBoundary ==
    Synthesized =>
       /\ circuit.new_volume = circuit.max_capacity
             => /\ cs.capacity
                /\ RestOfCapacityHolds => is_satisfied(cs)
       /\ circuit.new_volume = FAdd(circuit.max_capacity, 1)
             => ~cs.capacity /\ ~is_satisfied(cs)

\* C5 witness: a satisfied transition that fills the inventory to exactly
\* its capacity
C5_Witness ==
    /\ Synthesized
    /\ circuit.new_volume = circuit.max_capacity
    /\ circuit.new_volume > circuit.old_volume
    /\ is_satisfied(cs)

\* C6: a satisfied witness has new quantity = old quantity + amount for a
\* Deposit and old quantity - amount for a Withdraw, in the field, and also
\* in the integers when the old quantity and the amount are u64 values.
C6_QuantityChangeMatchesAmount ==
    (Synthesized /\ is_satisfied(cs)) =>
       /\ circuit.op_type = Deposit
             => circuit.new_quantity = FAdd(circuit.old_quantity, circuit.amount)
       /\ circuit.op_type = Withdraw
             => circuit.new_quantity = FSub(circuit.old_quantity, circuit.amount)
       /\ (circuit.old_quantity \in U64 /\ circuit.amount \in U64)
             => circuit.new_quantity =
                   IF circuit.op_type = Deposit
                   THEN circuit.old_quantity + circuit.amount
                   ELSE circuit.old_quantity - circuit.amount

\* C6 witness: a Deposit whose declared amount is not the change of the
\* leaf's quantity, rejected although the tree update and the signal agree
C6_Witness ==
    /\ Synthesized
    /\ circuit.op_type = Deposit
    /\ circuit.new_quantity > circuit.old_quantity
    /\ circuit.new_quantity # circuit.old_quantity + circuit.amount
    /\ cs.smt /\ cs.signal /\ cs.qty_range
    /\ ~cs.quantity
    /\ ~is_satisfied(cs)

\* C7: every assignment whose op_type is a field value other than 0 (Deposit)
\* and 1 (Withdraw) is unsatisfied.
C7_OpCodeMustBeDepositOrWithdraw ==
    (Synthesized /\ circuit.op_type \notin {Deposit, Withdraw})
        => ~cs.op_valid /\ ~is_satisfied(cs)

\* C7 witness: an assignment with another op code of which every other
\* constraint holds
C7_Witness ==
    /\ Synthesized
    /\ circuit.op_type \notin {Deposit, Withdraw}
    /\ cs.smt /\ cs.quantity /\ cs.qty_range /\ cs.volume /\ cs.vol_range
    /\ cs.capacity /\ cs.signal
    /\ ~cs.op_valid

\* C8: a satisfied witness has new volume = old volume + item_volume * amount
\* for a Deposit and old volume - item_volume * amount for a Withdraw, and a
\* new volume below 2^RangeBits.
C8_VolumeChangeMatchesAmount ==
    (Synthesized /\ is_satisfied(cs)) =>
       /\ circuit.new_volume =
             IF circuit.op_type = Deposit
             THEN FAdd(circuit.old_volume,
                       FMul(circuit.item_volume, circuit.amount))
             ELSE FSub(circuit.old_volume,
                       FMul(circuit.item_volume, circuit.amount))
       /\ circuit.new_volume < 2 ^ RangeBits

\* C8 witness: a transition that declares another new volume than the one
\* the amount gives, rejected although every other constraint holds
C8_Witness ==
    /\ Synthesized
    /\ circuit.amount > 0
    /\ cs.smt /\ cs.quantity /\ cs.qty_range /\ cs.vol_range /\ cs.capacity
    /\ cs.signal /\ cs.op_valid
    /\ ~cs.volume

\* C9: a proof made from a satisfied witness is accepted with its own public
\* inputs [signal_hash, nonce, inventory_id, registry_root], and rejected as
\* soon as one of the four is replaced by a different value.
C9_PublicInputsBound ==
    (verdict.by = "verify" /\ groth.made) =>
       /\ is_satisfied(generate_constraints(groth.assignment))
       /\ verdict.inputs = public_inputs(groth.assignment)
             => verdict.outcome = "accept"
       /\ verdict.inputs # public_inputs(groth.assignment)
             => verdict.outcome = "reject"

\* C9 witness: the proof was verified with another nonce and rejected
C9_Witness ==
    /\ verdict.by = "verify"
    /\ groth.made
    /\ verdict.inputs[1] = groth.assignment.signal_hash
    /\ verdict.inputs[2] # F(groth.assignment.nonce)
    /\ verdict.inputs[3] = groth.assignment.inventory_id
    /\ verdict.inputs[4] = groth.assignment.registry_root
    /\ verdict.outcome = "reject"

\* C10: verify_state_transition hands the backend the four public inputs
\* [signal_hash, nonce, inventory_id, registry_root] of the relation, and a
\* proof made from a satisfied witness is accepted.
C10_VerifyStateTransitionAccepts ==
    (verdict.by = "verify_state_transition" /\ groth.made) =>
       /\ verdict.inputs = public_inputs(groth.assignment)
       /\ verdict.outcome = "accept"

\* the proof in hand was drawn before the last update(s) changed the root,
\* and was then used in a witness whose old root is the current root
StaleWitnessBuilt ==
    /\ result.op = "stale_verify_and_update"
    /\ result.old_root # proof.root

\* C11 as stated: a witness that uses a proof drawn before a root-changing
\* update, with the current root as its old root, is unsatisfied.
C11_StaleWitnessUnsatisfiable ==
    StaleWitnessBuilt => ~result.satisfied

\* C11, amended: such a witness is satisfied only if no sibling on the item's
\* path changed since the proof was drawn (the updates in between wrote the
\* item of the proof itself) and its old quantity is the item's current one;
\* the new root it then yields is the root of the updated tree.
C11_StaleWitnessNeverWrong ==
    (StaleWitnessBuilt /\ result.satisfied) =>
       /\ proof.path = result.fresh_path
       /\ result.old_q = result.cur_q
       /\ result.computed_new_root = result.new_root

\* C11 witness: the item of the proof was overwritten after the proof was
\* drawn, and the witness with the old proof is satisfied
C11_Witness ==
    /\ StaleWitnessBuilt
    /\ result.satisfied
    /\ result.computed_new_root = result.new_root
    /\ result.cur_q # proof.qty

\* the proof in hand was drawn from a tree whose root the updates since
\* have changed
ProofOutdated == proof # NoProof /\ proof.root # root(tree)

\* C12 as stated: a proof drawn before the tree was mutated recomputes the old
\* root from the old (id, quantity) leaf and does not recompute the new root
\* with any item and any quantity.
C12_OldProofNeverGivesNewRoot ==
    ProofOutdated =>
       /\ proof.written => compute_root(proof, proof.id, proof.qty) = proof.root
       /\ \A i \in Ids, q \in Qtys : compute_root(proof, i, q) # root(tree)

\* C12, amended: the old proof recomputes the old root from the old leaf; it
\* recomputes the new root only when no sibling on the item's path changed
\* (the updates since wrote the item of the proof itself), and then only
\* with that item and the quantity written to it last.
C12_OldProofGivesNewRootOnlyForOwnItem ==
    ProofOutdated =>
       /\ proof.written => compute_root(proof, proof.id, proof.qty) = proof.root
       /\ \A i \in Ids, q \in Qtys :
             compute_root(proof, i, q) = root(tree)
                => /\ i = proof.id
                   /\ q = lastWrite[proof.id]
                   /\ proof.path = get_proof(tree, proof.id).path

\* C12 witness: the item of the proof was overwritten with another quantity;
\* the old proof gives the old root with the old quantity and the new root
\* with the new one
C12_Witness ==
    /\ ProofOutdated
    /\ proof.written
    /\ lastWrite[proof.id] # proof.qty
    /\ result.op = "update"
    /\ compute_root(proof, proof.id, proof.qty) = proof.root
    /\ compute_root(proof, proof.id, lastWrite[proof.id]) = root(tree)

\* C13: two signal computations whose nine inputs differ in exactly one
\* input (in particular only the nonce, or only the inventory id) give
\* different signals, and equal inputs give equal signals.
C13_SignalBindsEveryInput ==
    result.op = "compute_signal_hash" =>
        (result.signal_a = result.signal_b <=> result.a = result.b)

\* C13 witness: the two computations differ in the nonce only and give
\* different signals
C13_Witness ==
    /\ result.op = "compute_signal_hash"
    /\ result.a[8] # result.b[8]
    /\ \A k \in (1 .. 9) \ {8} : result.a[k] = result.b[k]
    /\ result.signal_a # result.signal_b

\* C14: enforce_range(value, bits) is satisfied exactly when the integer
\* value of the canonical representative is below 2^bits; at the width of the
\* range checks, 2^RangeBits - 1 passes, 2^RangeBits fails and the wrapped
\* negative FieldModulus - 5 fails.
C14_RangeCheckExact ==
    result.op = "enforce_range" =>
       /\ result.satisfied <=> result.value < 2 ^ result.num_bits
       /\ result.num_bits = RangeBits =>
             /\ result.value = 2 ^ RangeBits - 1 => result.satisfied
             /\ result.value = 2 ^ RangeBits => ~result.satisfied
             /\ result.value = FieldModulus - 5 => ~result.satisfied

\* C14 witness: the first value out of the range was checked at the width of
\* the range checks and refused
C14_Witness ==
    /\ result.op = "enforce_range"
    /\ result.num_bits = RangeBits
    /\ result.value = 2 ^ RangeBits
    /\ ~result.satisfied

\* C15 as stated: a capacity witness whose public hash is computed from the
\* witness is satisfied only if current_volume <= max_capacity.
C15_CapacityProofImpliesWithinCapacity ==
    (result.op = "capacity" /\ result.satisfied)
        => result.current_volume <= result.max_capacity

\* C16 as stated: an item-exists witness with a consistent Merkle proof,
\* commitment and public hash is unsatisfied whenever the actual quantity of
\* the item is below min_quantity.
C16_ItemExistsImpliesMinQuantity ==
    (result.op = "item_exists" /\ result.actual_quantity < result.min_quantity)
        => ~result.satisfied

\* C17 as stated: in every state of the tree, the Merkle proof drawn for item
\* id paired with another item id' satisfies neither verify_membership nor
\* verify_and_update against the root of the tree, for every quantity.
C17_WrongItemIdUnsatisfiable ==
    /\ (result.op = "item_exists" /\ result.proof_id # result.id)
           => ~result.satisfied
    /\ \A id \in Ids, other \in Ids, q \in Qtys : other # id =>
           /\ ~verify_membership(root(tree), other, q, get_proof(tree, id))
           /\ \A nq \in Qtys :
                  ~verify_and_update(root(tree), other, q, nq, get_proof(tree, id)).satisfied

\* the step is a call of update or get_proof that panicked
Rejected == ~panic /\ panic'

\* the step is a call of update or get_proof that returned
Accepted == ~panic' /\ result' # result /\ result'.op \in {"update", "get_proof"}

\* C18: update(id, q) and get_proof(id) panic exactly for the ids from
\* 2^depth on; the call that panics leaves the leaves, the nodes and the root
\* of the tree (and the proof drawn before) as they were, and every id of
\* 0 .. 2^depth - 1 is accepted.
C18_CapacityExceededRejected ==
    [][/\ Rejected => /\ result'.op \in {"update_panic", "get_proof_panic"}
                      /\ result'.id >= NumLeaves
                      /\ tree'.leaves = tree.leaves
                      /\ tree'.nodes = tree.nodes
                      /\ root(tree') = root(tree)
                      /\ proof' = proof
       /\ Accepted => result'.id \in 0 .. (NumLeaves - 1)
       /\ result'.op \in {"update_panic", "get_proof_panic"} => panic']_vars

\* C18 witness: the largest id of the capacity was written and is stored,
\* and the update of the first id out of capacity was rejected after it.
C18_Witness ==
    /\ panic
    /\ result.op = "update_panic"
    /\ result.id = NumLeaves
    /\ get(tree, NumLeaves - 1) > 0
    /\ root(tree) # root(new)

\* C19 as stated: the commitment of (root, volume, blinding) is
\* hashMany([root, volume, blinding]) in the plain and in the gadget form, the
\* two forms agree, and two triples give the same commitment only if they are
\* the same triple.
C19_CommitIsHashMany ==
    result.op = "create_smt_commitment" =>
        /\ result.native = anemoi_hash_many(AsField(result.a))
        /\ result.gadget = anemoi_hash_many_var(AsField(result.a))
        /\ result.native = result.gadget
        /\ (result.native = result.other <=> result.a = result.b)

RECURSIVE LeftFold(_, _)
\* hash2(...hash2(hash2(x1, x2), x3)..., xn) for n >= 2
LeftFold(xs, n) ==
    IF n = 2 THEN anemoi_hash_two(xs[1], xs[2])
    ELSE anemoi_hash_two(LeftFold(xs, n - 1), xs[n])

\* C20: anemoi_hash_many of no input is hash2(0, 0), of one input x is
\* hash2(x, 0), and of n >= 2 inputs the left fold of hash2 over them;
\* anemoi_hash_many_var gives the same value for every input length.
C20_HashManyIsLeftFold ==
    result.op = "anemoi_hash_many" =>
        LET xs == result.inputs
        IN /\ result.native = result.gadget
           /\ Len(xs) = 0 => result.native = anemoi_hash_two(F(0), F(0))
           /\ Len(xs) = 1 => result.native = anemoi_hash_two(xs[1], F(0))
           /\ Len(xs) >= 2 => result.native = LeftFold(xs, Len(xs))

\* C20 witness: both forms folded more than two inputs, the last of which
\* differs from the first, into the same value.
C20_Witness ==
    /\ result.op = "anemoi_hash_many"
    /\ Len(result.inputs) >= 3
    /\ result.inputs[1] # result.inputs[Len(result.inputs)]
    /\ result.native = result.gadget
    /\ result.native = LeftFold(result.inputs, Len(result.inputs))

C22_ItemVolumeBoundByPublicInputs ==
    (Synthesized /\ is_satisfied(cs)) =>
        \A iv \in Field :
            LET other == [circuit EXCEPT !.item_volume = iv]
            IN ( /\ is_satisfied(generate_constraints(other))
                 /\ public_inputs(other) = public_inputs(circuit) )
               => iv = circuit.item_volume

\* the transition of the helper call is doomed: the volume underflows, or the
\* product or the sum does not fit the u64 volume
Doomed ==
    LET volume_delta == result.item_volume * result.amount
    IN \/ volume_delta >= 2 ^ U64Bits
       \/ result.op = "after_withdraw" /\ volume_delta > result.old.current_volume
       \/ result.op = "after_deposit"
              /\ result.old.current_volume + volume_delta >= 2 ^ U64Bits

\* C23 as stated: after_deposit and after_withdraw reject exactly the doomed
\* transitions, each rejection is a typed error that leaves the old state as
\* it was, and otherwise the new volume is the old one plus or minus
\* item_volume * amount.
C23_DoomedTransitionRejected ==
    result.op \in {"after_deposit", "after_withdraw"} =>
        LET volume_delta == result.item_volume * result.amount
        IN /\ Doomed => /\ result.returned.outcome = "error"
                        /\ result.returned.state = result.old
           /\ ~Doomed => /\ result.returned.outcome = "ok"
                         /\ result.returned.state.current_volume =
                                IF result.op = "after_deposit"
                                THEN result.old.current_volume + volume_delta
                                ELSE result.old.current_volume - volume_delta

\* C24 as stated: after any sequence of updates every stored node differs
\* from the default of its level, and the node map has at most
\* (depth + 1) entries per item whose quantity is not 0, so that the removal
\* of the only item leaves an empty node map.
C24_OnlyNonDefaultNodesStored ==
    /\ \A key \in DOMAIN tree.nodes : tree.nodes[key] # compute_defaults(key[1])
    /\ Cardinality(DOMAIN tree.nodes)
           <= (Depth + 1) * Cardinality({i \in Ids : get(tree, i) # 0})
    /\ (\A i \in Ids : get(tree, i) = 0) => tree.nodes = new.nodes

\* the node at (level, index): the stored one, or the default of the level
NodeAt(level, index) == get_node(tree.nodes, level, index)

RECURSIVE MerkleRootOf(_, _)
\* the Merkle root of the subtree at (level, index) over the current leaf
\* layer
MerkleRootOf(level, index) ==
    IF level = 0 THEN NodeAt(0, index)
    ELSE hash_nodes(MerkleRootOf(level - 1, 2 * index),
                    MerkleRootOf(level - 1, 2 * index + 1))

\* C25: after any sequence of updates every node above the leaves is the hash
\* of its two children, an absent node being the default of its level; the
\* default of a level is the hash of two defaults of the level below; and
\* root() is the Merkle root of the current leaf layer.
C25_MerkleConsistent ==
    /\ \A l \in 0 .. (Depth - 1) :
           \A i \in 0 .. (2 ^ (Depth - l - 1) - 1) :
               NodeAt(l + 1, i) = hash_nodes(NodeAt(l, 2 * i), NodeAt(l, 2 * i + 1))
    /\ \A l \in 0 .. (Depth - 1) :
           compute_defaults(l + 1)
               = hash_nodes(compute_defaults(l), compute_defaults(l))
    /\ root(tree) = MerkleRootOf(Depth, 0)

\* C25 witness: items are stored in both halves of the tree, so that the root
\* combines two subtrees that were recomputed by different updates.
C25_Witness ==
    /\ get(tree, 0) > 0
    /\ get(tree, NumLeaves - 1) > 0
    /\ Cardinality(DOMAIN tree.nodes) > Depth + 1
    /\ root(tree) = MerkleRootOf(Depth, 0)
    /\ root(tree) # compute_defaults(Depth)

\* the leaf at a position holds an item
NonEmptyLeaf(position) == NodeAt(0, position) # compute_defaults(0)

\* C26 as stated: after any chain of satisfied transitions from the empty
\* accumulator the root is the one the last transition returned, every
\* non-empty leaf stands at the position that equals its item id, the proof a
\* satisfied transition used is the one of the position of its item id, and no
\* item id stands in two leaves.
C26_LeafPositionIsItemId ==
    /\ result.op = "transition" => /\ root(tree) = result.new_root
                                   /\ result.position = result.id
    /\ \A j \in 0 .. (NumLeaves - 1) :
           NonEmptyLeaf(j) => NodeAt(0, j)[1] = F(j)
    /\ \A j \in 0 .. (NumLeaves - 1), k \in 0 .. (NumLeaves - 1) :
           (j # k /\ NonEmptyLeaf(j) /\ NonEmptyLeaf(k))
               => NodeAt(0, j)[1] # NodeAt(0, k)[1]

\* C27 as stated: in a satisfied transition a Deposit never lowers the
\* quantity of the item or the aggregate volume, and a Withdraw never raises
\* them, whatever field elements stand on the amount and item_volume wires.
C27_NoNegativeAmounts ==
    [][ result'.op = "chain" =>
          /\ result'.op_type = Deposit =>
                 /\ get(tree', result'.id) >= get(tree, result'.id)
                 /\ result'.volume >= ChainVolume
          /\ result'.op_type = Withdraw =>
                 /\ get(tree', result'.id) <= get(tree, result'.id)
                 /\ result'.volume <= ChainVolume ]_vars

\* C30: along a chain of satisfied transitions every new state has an
\* aggregate volume in [0, 2^RangeBits) that is at most the max_capacity of
\* the transition that produced it, and the quantity that transition wrote is
\* in [0, 2^RangeBits).
C30_ChainWithinRangeAndCapacity ==
    result.op = "chain" =>
        /\ result.volume \in 0 .. (2 ^ RangeBits - 1)
        /\ result.volume <= result.max_capacity
        /\ result.quantity \in 0 .. (2 ^ RangeBits - 1)
        /\ get(tree, result.id) = result.quantity

\* a second link of a chain was accepted on a state that already holds volume,
\* with a max_capacity that the new volume reaches
C30_Witness ==
    /\ result.op = "chain"
    /\ updates = MaxChain
    /\ result.volume = result.max_capacity
    /\ result.volume = 2 ^ RangeBits - 1
    /\ Cardinality(DOMAIN tree.leaves) = 2

\* C28: for a and b below 2^U64Bits, enforce_geq(a, b) is satisfied exactly
\* when 0 <= a - b < 2^RangeBits over the integers: b > a is refused, and so is
\* a >= b + 2^RangeBits; constraint 6 is this check on max_capacity and
\* new_volume, so a max_capacity that exceeds the new volume by 2^RangeBits or
\* more is refused.
C28_EnforceGeqExact ==
    (result.op = "enforce_geq" /\ result.a \in U64 /\ result.b \in U64) =>
        /\ result.satisfied <=> ( /\ 0 <= result.a - result.b
                                  /\ result.a - result.b < 2 ^ RangeBits )
        /\ result.b > result.a => ~result.satisfied
        /\ result.a >= result.b + 2 ^ RangeBits => ~result.satisfied
        /\ result.capacity = result.satisfied

\* C28 witness: a capacity that exceeds the volume by exactly 2^RangeBits was
\* checked and refused
C28_Witness ==
    /\ result.op = "enforce_geq"
    /\ result.a \in U64
    /\ result.b \in U64
    /\ result.b > 0
    /\ result.a = result.b + 2 ^ RangeBits
    /\ ~result.satisfied
    /\ ~result.capacity

\* the nodes on the path from the leaf of an id to the root
OnPath(item_id, level, index) == index = item_id \div (2 ^ level)

\* C29: an update changes only its item: the quantity of every other id, and
\* every stored node off the path from the leaf of the id to the root, is as
\* before; get_proof and verify_proof leave the tree as it is (get and root
\* are read through them), and the defaults of the levels never change.
C29_UpdateFrame ==
    [][ /\ result'.op \in {"update", "verify_and_update"} =>
              /\ \A j \in 0 .. (NumLeaves - 1) :
                     j # result'.id => get(tree', j) = get(tree, j)
              /\ \A l \in 0 .. Depth :
                     \A i \in 0 .. (2 ^ (Depth - l) - 1) :
                         ~OnPath(result'.id, l, i) =>
                             /\ (<<l, i>> \in DOMAIN tree'.nodes)
                                    <=> (<<l, i>> \in DOMAIN tree.nodes)
                             /\ get_node(tree'.nodes, l, i) = get_node(tree.nodes, l, i)
        /\ result'.op \in {"get_proof", "get_proof_panic", "verify_proof",
                           "update_panic"} => tree' = tree
        /\ tree' # tree => result'.op \in {"update", "verify_and_update"}
      ]_vars

\* C29 witness: an update of one id was made on a tree that holds another id
C29_Witness ==
    /\ result.op = "update"
    /\ result.q > 0
    /\ \E j \in Ids : j # result.id /\ get(tree, j) > 0
    /\ proof # NoProof

====
